---- MODULE Spec2Model ----
(***************************************************************************)
(* A model of the bar-chart layout engine of src/graph/GraphInstance.ts:   *)
(* the Graph class (constructor, add, draw and the three private drawing   *)
(* passes), the process-wide CanvasInstance it shares, and the calls it    *)
(* makes on the 2D context.                                                *)
(*                                                                         *)
(* JavaScript numbers are modelled as exact extended rationals: a record   *)
(* [n, d] in lowest terms with d > 0, and d = 0 for the three IEEE special *)
(* values (n = 0: NaN, n = 1: Infinity, n = -1: -Infinity).  Every input   *)
(* set below holds only dyadic rationals over small integers, for which    *)
(* the double arithmetic of the program is exact.  Negative zero is not    *)
(* distinguished from zero (no input produces a division by it).           *)
(*                                                                         *)
(* JavaScript strings are modelled as sequences of one-character strings,  *)
(* so that parsing and formatting are computed character by character.     *)
(***************************************************************************)
EXTENDS Integers, Sequences, FiniteSets

VARIABLES
    canvas,    \* CanvasInstance: the surface every Graph of the process shares
    graphs,    \* the Graph objects constructed so far, in construction order
    ctxCalls,  \* the calls the most recent draw() made on the 2D context
    built,     \* per Graph, its options as the constructor resolved them
    drawn,     \* per Graph, whether draw() has been called on it
    last       \* the most recent call: its name, its Graph, its argument

vars == <<canvas, graphs, ctxCalls, built, drawn, last>>

----------------------------------------------------------------------------
(* Numbers *)

Abs(i) == IF i < 0 THEN -i ELSE i

RECURSIVE GCD(_, _)
GCD(a, b) == IF b = 0 THEN a ELSE GCD(b, a % b)

\* The finite number n/d (d # 0) in lowest terms with a positive denominator.
Frac(n, d) ==
    LET g == GCD(Abs(n), Abs(d))
        s == IF d < 0 THEN -1 ELSE 1
    IN  [n |-> (s * n) \div g, d |-> (s * d) \div g]

Num(i) == [n |-> i, d |-> 1]

NaN == [n |-> 0, d |-> 0]

Infinity == [n |-> 1, d |-> 0]

NegInfinity == [n |-> -1, d |-> 0]

IsFinite(x) == x.d # 0

isNaN(x) == x.d = 0 /\ x.n = 0

Sign(x) == IF x.n > 0 THEN 1 ELSE IF x.n < 0 THEN -1 ELSE 0

Neg(x) == [n |-> -x.n, d |-> x.d]

\* a + b
Plus(a, b) ==
    IF IsFinite(a) /\ IsFinite(b) THEN Frac(a.n * b.d + b.n * a.d, a.d * b.d)
    ELSE IF isNaN(a) \/ isNaN(b) THEN NaN
    ELSE IF ~IsFinite(a) /\ ~IsFinite(b) /\ a.n # b.n THEN NaN
    ELSE IF IsFinite(a) THEN b ELSE a

\* a - b
Minus(a, b) == Plus(a, Neg(b))

\* a * b
Times(a, b) ==
    IF IsFinite(a) /\ IsFinite(b) THEN Frac(a.n * b.n, a.d * b.d)
    ELSE [n |-> Sign(a) * Sign(b), d |-> 0]

\* a / b
Over(a, b) ==
    IF IsFinite(a) /\ IsFinite(b)
    THEN IF b.n # 0 THEN Frac(a.n * b.d, a.d * b.n) ELSE [n |-> Sign(a), d |-> 0]
    ELSE IF isNaN(a) \/ isNaN(b) THEN NaN
    ELSE IF IsFinite(a) THEN Num(0)
    ELSE IF IsFinite(b) THEN [n |-> a.n * (IF b.n < 0 THEN -1 ELSE 1), d |-> 0]
    ELSE NaN

\* a < b, for finite a and b
Less(a, b) == a.n * b.d < b.n * a.d

\* x % 1: zero exactly for the integral numbers, NaN for NaN and the infinities
Mod1(x) ==
    IF ~IsFinite(x) THEN NaN
    ELSE LET q == Abs(x.n) \div x.d
         IN  Frac(Sign(x) * (Abs(x.n) - q * x.d), x.d)

\* JavaScript truthiness of a number: neither zero nor NaN
TruthyNum(x) == ~(isNaN(x) \/ (IsFinite(x) /\ x.n = 0))

----------------------------------------------------------------------------
(* Strings *)

DigitChars == <<"0", "1", "2", "3", "4", "5", "6", "7", "8", "9">>

IsDigit(c) == \E k \in 1..10 : DigitChars[k] = c

DigitVal(c) == (CHOOSE k \in 1..10 : DigitChars[k] = c) - 1

RECURSIVE NatToStr(_)
NatToStr(k) ==
    IF k < 10 THEN <<DigitChars[k + 1]>>
    ELSE NatToStr(k \div 10) \o <<DigitChars[(k % 10) + 1]>>

RECURSIVE Pow10(_)
Pow10(p) == IF p = 0 THEN 1 ELSE 10 * Pow10(p - 1)

RECURSIVE Zeros(_)
Zeros(k) == IF k <= 0 THEN <<>> ELSE <<"0">> \o Zeros(k - 1)

SpecialToString(x) ==
    IF isNaN(x) THEN <<"N", "a", "N">>
    ELSE IF x.n > 0 THEN <<"I", "n", "f", "i", "n", "i", "t", "y">>
    ELSE <<"-", "I", "n", "f", "i", "n", "i", "t", "y">>

\* Number.prototype.toString, as the program uses it: on integral numbers
\* and on the special values only.
toString(x) ==
    IF ~IsFinite(x) THEN SpecialToString(x)
    ELSE IF x.n < 0 THEN <<"-">> \o NatToStr(-x.n)
    ELSE NatToStr(x.n)

\* Number.prototype.toFixed(p), 0 <= p: the decimal numeral of x with
\* exactly p digits after the point, rounded to nearest, a tie taking the
\* larger magnitude.
toFixed(x, p) ==
    IF ~IsFinite(x) THEN SpecialToString(x)
    ELSE LET a    == Abs(x.n) * Pow10(p)
             m    == (2 * a + x.d) \div (2 * x.d)
             ds   == NatToStr(m)
             pad  == IF Len(ds) < p + 1 THEN Zeros(p + 1 - Len(ds)) \o ds ELSE ds
             body == IF p = 0 THEN pad
                     ELSE SubSeq(pad, 1, Len(pad) - p) \o <<".">>
                          \o SubSeq(pad, Len(pad) - p + 1, Len(pad))
         IN  IF x.n < 0 THEN <<"-">> \o body ELSE body

\* The length of the longest prefix of s[i..] made of decimal digits.
RECURSIVE DigitRun(_, _)
DigitRun(s, i) ==
    IF i <= Len(s) /\ IsDigit(s[i]) THEN 1 + DigitRun(s, i + 1) ELSE 0

RECURSIVE DigitsValue(_, _, _)
DigitsValue(s, i, k) ==
    IF k = 0 THEN 0 ELSE 10 * DigitsValue(s, i, k - 1) + DigitVal(s[i + k - 1])

RECURSIVE SkipSpaces(_, _)
SkipSpaces(s, i) ==
    IF i <= Len(s) /\ s[i] = " " THEN SkipSpaces(s, i + 1) ELSE i

\* Number.parseFloat on a string without exponent part: leading white space
\* is skipped, then the longest prefix  [+-] digits [. digits]  or
\* [+-] . digits  is read; NaN when there is no such prefix.
parseFloat(s) ==
    LET i0  == SkipSpaces(s, 1)
        neg == i0 <= Len(s) /\ s[i0] = "-"
        i1  == IF i0 <= Len(s) /\ s[i0] \in {"+", "-"} THEN i0 + 1 ELSE i0
        ni  == DigitRun(s, i1)
        dot == i1 + ni <= Len(s) /\ s[i1 + ni] = "."
        nf  == IF dot THEN DigitRun(s, i1 + ni + 1) ELSE 0
        mag == Frac(DigitsValue(s, i1, ni) * Pow10(nf) + DigitsValue(s, i1 + ni + 1, nf),
                    Pow10(nf))
    IN  IF ni = 0 /\ nf = 0 THEN NaN
        ELSE IF neg THEN Neg(mag) ELSE mag

----------------------------------------------------------------------------
(* JavaScript values: a type tag t and a payload v.  A number's payload is *)
(* a rational as above, a string's a sequence of characters.               *)

Undefined == [t |-> "undefined", v |-> <<>>]

Null == [t |-> "null", v |-> <<>>]

Number(x) == [t |-> "number", v |-> x]

Str(s) == [t |-> "string", v |-> s]

Bool(b) == [t |-> "boolean", v |-> b]

Obj(o) == [t |-> "object", v |-> o]

\* ToBoolean
Truthy(j) ==
    CASE j.t = "undefined" -> FALSE
      [] j.t = "null"      -> FALSE
      [] j.t = "boolean"   -> j.v
      [] j.t = "number"    -> TruthyNum(j.v)
      [] j.t = "string"    -> Len(j.v) > 0
      [] OTHER             -> TRUE

\* a && b
And(a, b) == IF Truthy(a) THEN b ELSE a

\* a || b
Or(a, b) == IF Truthy(a) THEN a ELSE b

\* a || b, the operator a resolution written with || would use
NullishAsOr(a, b) == Or(a, b)

\* a ?? b
Nullish(a, b) == IF a.t \in {"undefined", "null"} THEN b ELSE a

\* obj.f, undefined when obj has no property f
Prop(obj, f) == IF f \in DOMAIN obj.v THEN obj.v[f] ELSE Undefined

\* x.toString() for the values the x-axis label expression produces
JsToString(j) ==
    CASE j.t = "string" -> j.v
      [] j.t = "number" -> toString(j.v)
      [] j.t = "boolean" -> IF j.v THEN <<"t", "r", "u", "e">>
                            ELSE <<"f", "a", "l", "s", "e">>
      [] OTHER -> <<>>

----------------------------------------------------------------------------
(* Graph options *)

Fields ==
    {"height", "width", "backgroundColor", "titleText", "xAxisText", "yAxisText",
     "yMax", "yPadding", "xPadding", "bar_width", "bar_spacing",
     "graphSegments_X", "graphSegments_Y", "titleColor", "xTextColor",
     "yTextColor", "yTextSize", "xSegmentColor", "ySegmentColor",
     "graphValuePrecision", "verbose"}

White == Str(<<"r", "g", "b", "(", "2", "5", "5", ",", "2", "5", "5", ",", "2", "5", "5", ")">>)

\* config && config.f, for the constructor's optional argument
ConfigField(config, f) == And(config, IF config.t = "object" THEN Prop(config, f) ELSE Undefined)

\* The options object the constructor builds from its argument.
ResolveOptions(config) ==
    [height          |-> Nullish(ConfigField(config, "height"), Number(Num(480))),
     width           |-> Nullish(ConfigField(config, "width"), Number(Num(720))),
     backgroundColor |-> Nullish(ConfigField(config, "backgroundColor"),
                                 Obj([r |-> Num(50), g |-> Num(50), b |-> Num(50),
                                      a |-> Frac(1, 2)])),
     titleText       |-> Nullish(ConfigField(config, "titleText"),
                                 Str(<<"t", "i", "t", "l", "e">>)),
     xAxisText       |-> Nullish(ConfigField(config, "xAxisText"),
                                 Str(<<"X", "-", "A", "x", "i", "s">>)),
     yAxisText       |-> Nullish(ConfigField(config, "yAxisText"),
                                 Str(<<"Y", "-", "A", "x", "i", "s">>)),
     yMax            |-> Nullish(ConfigField(config, "yMax"), Number(Num(-1))),
     yPadding        |-> Nullish(ConfigField(config, "yPadding"), Number(Num(0))),
     xPadding        |-> Nullish(ConfigField(config, "xPadding"), Number(Num(0))),
     bar_width       |-> Nullish(ConfigField(config, "bar_width"), Number(Num(10))),
     bar_spacing     |-> Nullish(ConfigField(config, "bar_spacing"), Number(Num(5))),
     graphSegments_X |-> Nullish(ConfigField(config, "graphSegments_X"), Number(Num(10))),
     graphSegments_Y |-> Nullish(ConfigField(config, "graphSegments_Y"), Number(Num(10))),
     titleColor      |-> Nullish(ConfigField(config, "titleColor"), White),
     xTextColor      |-> Nullish(ConfigField(config, "xTextColor"), White),
     yTextColor      |-> Nullish(ConfigField(config, "yTextColor"), White),
     yTextSize       |-> Nullish(ConfigField(config, "yTextSize"), Number(Num(10))),
     xSegmentColor   |-> Nullish(ConfigField(config, "xSegmentColor"), White),
     ySegmentColor   |-> Nullish(ConfigField(config, "ySegmentColor"), White),
     graphValuePrecision |-> Nullish(ConfigField(config, "graphValuePrecision"),
                                     Number(Num(2))),
     verbose         |-> Nullish(ConfigField(config, "verbose"), Bool(FALSE))]

\* The initial values of the private offset and padding fields.
BASE_Y_OFFSET == 30

BASE_X_OFFSET == 30

BASE_Y_PADDING == 30

BASE_X_PADDING == 50

\* The Graph object as the constructor leaves it.
NewGraph(config) ==
    LET o == ResolveOptions(config)
    IN  [_options   |-> o,
         _entries   |-> <<>>,
         _x_padding |-> Plus(Num(BASE_X_PADDING), o.xPadding.v),
         _y_padding |-> Plus(Num(BASE_Y_PADDING), o.yPadding.v),
         _x_offset  |-> Plus(Num(BASE_X_OFFSET), o.xPadding.v),
         _y_offset  |-> Plus(Num(BASE_Y_OFFSET), o.yPadding.v)]

----------------------------------------------------------------------------
(* The shared drawing surface, CanvasInstance *)

\* The font a fresh 2D context starts with.
DefaultFont == <<"1", "0", "p", "x", " ", "s", "a", "n", "s", "-", "s", "e", "r", "i", "f">>

\* CanvasInstance before any chart exists: no surface yet.
NoCanvas == [ready |-> FALSE, WIDTH |-> Num(0), HEIGHT |-> Num(0), font |-> DefaultFont]

\* CanvasInstance.init(width, height)
CanvasInit(width, height) ==
    [ready |-> TRUE, WIDTH |-> width, HEIGHT |-> height, font |-> DefaultFont]

\* The constructor's surface step, always initialising
EnsureCanvasAlwaysInit(cv, o) == CanvasInit(o.width.v, o.height.v)

\* The constructor's surface step: initialise it unless it is ready.
EnsureCanvas(cv, o) == IF ~cv.ready THEN CanvasInit(o.width.v, o.height.v) ELSE cv

----------------------------------------------------------------------------
(* Calls on the 2D context.  A call is recorded with the place that made   *)
(* it (site, and the loop index i where there is one), its numeric         *)
(* arguments a, b, c, d in order, its text, and the fill or stroke style   *)
(* and the font in force.                                                  *)

Call(site, i, op, a, b, c, d, text, style, font) ==
    [site |-> site, i |-> i, op |-> op, a |-> a, b |-> b, c |-> c, d |-> d,
     text |-> text, style |-> style, font |-> font]

Zero == Num(0)

TickDotColor == <<"#", "E", "C", "F", "0", "F", "1">>

TitleFont == <<"1", "2", "p", "t", " ", "C", "o", "c", "h", "i", "n">>

RECURSIVE ForLoop(_)
\* The calls of a for loop in order, bodies[k] being those of its k-th
\* iteration.
ForLoop(bodies) ==
    IF Len(bodies) = 0 THEN <<>> ELSE Head(bodies) \o ForLoop(Tail(bodies))

\* The number of iterations of  for (let i = 0; i < limit; i++)  for a
\* finite limit (none for NaN).
Iterations(limit) ==
    IF ~IsFinite(limit) \/ limit.n <= 0 THEN 0
    ELSE (limit.n + limit.d - 1) \div limit.d

\* utils: normalize(val, min, max), the position of val in [min, max]
normalize(val, min, max) == Over(Minus(val, min), Minus(max, min))

\* utils: max(arr).  The maximum of a non-empty array; of an empty one the
\* result is implementation-defined, zero or -Infinity.
maxResults(arr) ==
    IF Len(arr) = 0 THEN {Zero, NegInfinity}
    ELSE {arr[k] : k \in {k \in 1..Len(arr) : \A j \in 1..Len(arr) : ~Less(arr[k], arr[j])}}

\* this._entries[i], undefined past the end
EntryAt(entries, i) == IF i + 1 <= Len(entries) THEN Obj(entries[i + 1]) ELSE Undefined

\* const maxY_segment = (HEIGHT / graphSegments_Y) * (graphSegments_Y - 2)
maxY_segment(HEIGHT, graphSegments_Y) ==
    Times(Over(HEIGHT, graphSegments_Y), Minus(graphSegments_Y, Num(2)))

\* const X_SEGMENTS = (WIDTH - this._x_padding) / graphSegments_X
X_SEGMENTS(WIDTH, x_padding, graphSegments_X) ==
    Over(Minus(WIDTH, x_padding), graphSegments_X)

\* The value text of a bar written with || in place of ??
barValueTextOr(entry, precision) ==
    LET y   == entry.val
        val == IF Mod1(y) # Zero THEN Str(toFixed(y, precision)) ELSE Number(y)
    IN  IF entry.valueLabel.t # "null"
        THEN <<Or(entry.valueLabel, Str(JsToString(val))).v>>
        ELSE <<>>

\* The text _draw_bars writes above a bar: none, or one string.
barValueText(entry, precision) ==
    LET y   == entry.val
        val == IF Mod1(y) # Zero THEN Str(toFixed(y, precision)) ELSE Number(y)
    IN  IF entry.valueLabel.t # "null"
        THEN <<Nullish(entry.valueLabel, Str(JsToString(val))).v>>
        ELSE <<>>

\* i < limit, as JavaScript compares numbers (false against NaN)
LessThan(a, b) ==
    IF IsFinite(a) /\ IsFinite(b) THEN Less(a, b)
    ELSE IF isNaN(a) \/ isNaN(b) THEN FALSE
    ELSE IF IsFinite(a) THEN b.n > 0
    ELSE IF IsFinite(b) THEN a.n < 0
    ELSE a.n < b.n

\* The number of bars of a loop written  i <= graphSegments_X
barCountInclusive(graphSegments_X, nEntries) ==
    Cardinality({i \in 0..(nEntries - 1) : ~LessThan(graphSegments_X, Num(i))})

\* The number of iterations of the bar loop that paint: i < graphSegments_X,
\* left as soon as i >= this._entries.length.
barCount(graphSegments_X, nEntries) ==
    Cardinality({i \in 0..(nEntries - 1) : LessThan(Num(i), graphSegments_X)})

\* One iteration of the bar loop: the rectangle at X, Y high, and the
\* value text above it.
barCalls(i, entry, X, Y, top, bar_width, txt, font) ==
    <<Call("bar", i, "fillRect", X, top, bar_width, Y, <<>>, entry.color, font)>>
    \o (IF Len(txt) = 0 THEN <<>>
        ELSE <<Call("barValue", i, "fillText", Plus(X, Num(5)), Minus(top, Num(10)),
                    Zero, Zero, txt[1], entry.color, font)>>)

\* const Y = normalize(y, 0, yMax) * maxY_segment, clamped to the span
barHeightClamped(y, yMax, maxY) ==
    IF LessThan(yMax, y) THEN maxY ELSE Times(normalize(y, Zero, yMax), maxY)

\* const Y = normalize(y, 0, yMax) * maxY_segment
barHeight(y, yMax, maxY) == Times(normalize(y, Zero, yMax), maxY)

\* The y argument of fillRect: HEIGHT - this._y_offset - Y
barTop(HEIGHT, y_offset, Y) == Minus(Minus(HEIGHT, y_offset), Y)

\* const X = this._x_padding + X_SEGMENTS * i
slotX(x_padding, XS, i) == Plus(x_padding, Times(XS, Num(i)))

barAt(i, entry, X, Y, HEIGHT, y_offset, bar_width, precision, font) ==
    barCalls(i, entry, X, Y, barTop(HEIGHT, y_offset, Y), bar_width,
             barValueText(entry, precision), font)

\* The bar loop, given yMax, maxY_segment and X_SEGMENTS.
barLoop(gr, cv, yMax, maxY, XS) ==
    LET Bar(i) ==
            barAt(i, EntryAt(gr._entries, i).v, slotX(gr._x_padding, XS, i),
                  barHeight(EntryAt(gr._entries, i).v.val, yMax, maxY),
                  cv.HEIGHT, gr._y_offset, gr._options.bar_width.v,
                  gr._options.graphValuePrecision.v.n, cv.font)
    IN  ForLoop([k \in 1..barCount(gr._options.graphSegments_X.v, Len(gr._entries))
                    |-> Bar(k - 1)])

\* _draw_bars
draw_bars(gr, cv) ==
    barLoop(gr, cv, gr._options.yMax.v,
            maxY_segment(cv.HEIGHT, gr._options.graphSegments_Y.v),
            X_SEGMENTS(cv.WIDTH, gr._x_padding, gr._options.graphSegments_X.v))

\* _draw_graph_outline
draw_graph_outline(gr, cv) ==
    LET o == gr._options
        H == cv.HEIGHT
        W == cv.WIDTH
        bottom == Minus(H, gr._y_padding)
    IN  (IF Truthy(o.titleText)
         THEN <<Call("title", 0, "drawTextWithFont", Minus(Over(W, Num(2)), Num(30)),
                     gr._y_offset, Zero, Zero, o.titleText.v, o.titleColor.v, TitleFont)>>
         ELSE <<>>)
        \o (IF Truthy(o.xAxisText)
            THEN <<Call("xAxisText", 0, "fillText", Minus(Over(W, Num(2)), Num(10)),
                        Plus(Minus(H, Over(gr._y_offset, Num(2))), Num(10)), Zero, Zero,
                        o.xAxisText.v, o.xTextColor.v, cv.font)>>
            ELSE <<>>)
        \o <<Call("xAxisLine", 0, "stroke", gr._x_padding, bottom, gr._x_padding,
                  gr._y_padding, <<>>, o.xTextColor.v, cv.font)>>
        \o (IF Truthy(o.yAxisText)
            THEN <<Call("yAxisText", 0, "fillText", Minus(Over(gr._x_offset, Num(2)), Num(8)),
                        Over(H, Num(2)), Zero, Zero, o.yAxisText.v, o.yTextColor.v, cv.font)>>
            ELSE <<>>)
        \o <<Call("yAxisLine", 0, "stroke", gr._x_padding, bottom,
                  Minus(W, gr._x_padding), bottom, <<>>, o.yTextColor.v, cv.font)>>

\* The text of the x-axis label of slot i: none, or one string.
xTickText(entry, i, precision) ==
    LET label == IF entry.t = "undefined" THEN Undefined ELSE entry.v.label
        hasLabel == And(entry, Bool(label.t # "undefined"))
        entryFloatVal ==
            Or(And(hasLabel, IF Truthy(hasLabel) THEN Number(parseFloat(label.v))
                             ELSE Undefined),
               Number(NaN)).v
        shown ==
            IF isNaN(entryFloatVal) THEN label
            ELSE IF ~TruthyNum(Mod1(entryFloatVal)) THEN Number(entryFloatVal)
            ELSE Str(toFixed(entryFloatVal, precision))
    IN  IF ~(label.t = "string" /\ Len(label.v) = 0)
        THEN <<JsToString(Or(And(hasLabel, IF Truthy(hasLabel) THEN shown ELSE Undefined),
                             Number(Num(i))))>>
        ELSE <<>>

\* The limit of the x-axis tick loop: i < graphSegments_X - 1
xTickLimit(graphSegments_X) == Minus(graphSegments_X, Num(1))

\* Evaluate yMax if selected: m is the result of max over the entries' values.
evaluateYMax(o, m) ==
    IF o.yMax.t = "number" /\ o.yMax.v = Num(-1) THEN [o EXCEPT !.yMax = Number(m)] ELSE o

\* The font the x-axis loop selects: this._options.yTextSize + "px Cochin"
xTickFont(o) == JsToString(o.yTextSize) \o <<"p", "x", " ", "C", "o", "c", "h", "i", "n">>

\* The label of a y-axis tick:
\* yVal % 1 === 0 ? yVal.toString() : yVal.toFixed(graphValuePrecision)
yValStr(yVal, precision) ==
    IF Mod1(yVal) = Zero THEN toString(yVal) ELSE toFixed(yVal, precision)

yTickCalls(i, x_padding, Y, str, style, font) ==
    <<Call("yTick", i, "arc", x_padding, Y, Num(2), Zero, <<>>, TickDotColor, font),
      Call("yTickLabel", i, "fillText",
           Minus(x_padding, Plus(Num(10), Times(Num(Len(str)), Frac(11, 2)))),
           Plus(Y, Num(3)), Zero, Zero, str, style, font)>>

\* One iteration of the y-axis loop, with its tick at height Y.
yTickAt(i, gr, H, Y, maxY, precision, font) ==
    yTickCalls(i, gr._x_padding, Y,
               yValStr(normalize(Times(Minus(Minus(H, gr._y_padding), Y),
                                       gr._options.yMax.v), Zero, maxY), precision),
               gr._options.ySegmentColor.v, font)

xTickCalls(i, X, bottom, labelTop, txt, style, font, tickFont) ==
    <<Call("xTick", i, "arc", X, bottom, Num(2), Zero, <<>>, TickDotColor, font)>>
    \o (IF Len(txt) = 0 THEN <<>>
        ELSE <<Call("xTickLabel", i, "fillText", X, labelTop, Zero, Zero, txt[1],
                    style, tickFont)>>)

\* The two loops of _draw_graph_segments, given the segment sizes.
segmentLoops(gr, cv, y_height_px, maxY, XS, precision, tickFont) ==
    LET YTick(i) ==
            yTickAt(i, gr, cv.HEIGHT,
                    Minus(Minus(cv.HEIGHT, Times(y_height_px, Num(i))), gr._y_padding),
                    maxY, precision, cv.font)
        XTick(i) ==
            xTickCalls(i, slotX(gr._x_padding, XS, i), Minus(cv.HEIGHT, gr._y_padding),
                       Plus(Minus(cv.HEIGHT, gr._y_offset), Num(12)),
                       xTickText(EntryAt(gr._entries, i), i, precision),
                       gr._options.xSegmentColor.v,
                       IF i = 0 THEN cv.font ELSE tickFont, tickFont)
    IN  ForLoop([k \in 1..Iterations(Minus(gr._options.graphSegments_Y.v, Num(1)))
                    |-> YTick(k - 1)])
        \o ForLoop([k \in 1..Iterations(xTickLimit(gr._options.graphSegments_X.v))
                       |-> XTick(k - 1)])

\* _draw_graph_segments, after the yMax evaluation: the y-axis loop, then
\* the x-axis loop.
draw_graph_segments(gr, cv) ==
    segmentLoops(gr, cv, Over(cv.HEIGHT, gr._options.graphSegments_Y.v),
                 maxY_segment(cv.HEIGHT, gr._options.graphSegments_Y.v),
                 X_SEGMENTS(cv.WIDTH, gr._x_padding, gr._options.graphSegments_X.v),
                 gr._options.graphValuePrecision.v.n, xTickFont(gr._options))

\* The context's font when _draw_graph_segments returns.
fontAfterSegments(gr, cv) ==
    IF Iterations(xTickLimit(gr._options.graphSegments_X.v)) > 0
    THEN xTickFont(gr._options) ELSE cv.font

\* utils: background(r, g, b, a)
backgroundCall(gr, cv) ==
    LET c == gr._options.backgroundColor.v
    IN  <<Call("background", 0, "background", c.r, c.g, c.b, c.a, <<>>, <<>>, cv.font)>>

\* What a draw() leaves: the graph and the canvas afterwards, the calls made.
drawResult(gr2, cv, calls, font) ==
    [graph |-> gr2, canvas |-> [cv EXCEPT !.font = font], calls |-> calls]

\* The passes of draw() with the yMax evaluation moved ahead of the bars
drawPassesScaleFirst(gr, gr2, cv) ==
    drawResult(gr2, cv,
               backgroundCall(gr2, cv) \o draw_bars(gr2, cv)
               \o draw_graph_outline(gr2, cv) \o draw_graph_segments(gr2, cv),
               fontAfterSegments(gr2, cv))

\* The passes of draw(): the background, the bars, the outline, then the
\* segments.  gr is the graph when draw() is called, gr2 the graph once the
\* first step of _draw_graph_segments has evaluated yMax.
drawPasses(gr, gr2, cv) ==
    drawResult(gr2, cv,
               backgroundCall(gr, cv) \o draw_bars(gr, cv)
               \o draw_graph_outline(gr, cv) \o draw_graph_segments(gr2, cv),
               fontAfterSegments(gr2, cv))

\* draw(), m being what max returns for the entries' values.
draw(gr, cv, m) ==
    drawPasses(gr, [gr EXCEPT !._options = evaluateYMax(gr._options, m)], cv)

\* add with the entry put first
addFirst(gr, entry) == [gr EXCEPT !._entries = <<entry>> \o @]

\* add(entry)
add(gr, entry) == [gr EXCEPT !._entries = Append(@, entry)]

----------------------------------------------------------------------------
(* Bounds and input sets *)

MaxEntries == 3

MaxLabelled == 2

MaxGraphs == 2

MaxSupplied == 2

Red == <<"r", "e", "d">>

Blue == <<"b", "l", "u", "e">>

Grey == <<"g", "r", "e", "y">>

Pink == <<"p", "i", "n", "k">>

Entry(val, label, valueLabel, color) ==
    [val |-> val, label |-> label, color |-> color, valueLabel |-> valueLabel]

\* Entries that differ in value (negative and positive), each value with a
\* colour of its own.
ValueEntries ==
    {Entry(Num(-1), Undefined, Undefined, Grey),
     Entry(Num(1), Undefined, Undefined, Red),
     Entry(Num(2), Undefined, Undefined, Blue),
     Entry(Num(4), Undefined, Undefined, Pink)}

Labels ==
    {<<>>, <<"0", ".", "0">>, <<"1", ".", "5">>, <<"2", ".", "0">>, <<"a", "b">>,
     <<"3", "a">>}

\* Entries that differ in label and value label.
LabelEntries ==
    {Entry(Num(2), Str(l), Undefined, Red) : l \in Labels}
    \cup {Entry(Frac(5, 4), Undefined, Undefined, Blue),
          Entry(Num(2), Undefined, Null, Blue),
          Entry(Frac(5, 4), Undefined, Str(<<>>), Blue),
          Entry(Num(2), Undefined, Str(<<"h", "i">>), Blue)}

\* Constructor arguments for the charts that differ in scale and slots.
ValueConfigs ==
    {Undefined,
     Obj([yMax |-> Number(Num(4))]),
     Obj([yMax |-> Number(Num(2)), graphSegments_X |-> Number(Num(2))]),
     Obj([graphSegments_X |-> Number(Num(2)), graphSegments_Y |-> Number(Num(4))]),
     Obj([yMax |-> Number(Num(4)), graphSegments_X |-> Number(Num(2)),
          graphSegments_Y |-> Number(Num(4)), xPadding |-> Number(Num(10)),
          yPadding |-> Number(Num(6)), width |-> Number(Num(400)),
          height |-> Number(Num(240))]),
     Obj([yMax |-> Number(Num(0)), graphSegments_X |-> Number(Num(0))])}

\* Constructor arguments for the charts that differ in labels.
LabelConfigs ==
    {Undefined,
     Obj([graphSegments_X |-> Number(Num(2)), graphValuePrecision |-> Number(Num(0)),
          yMax |-> Number(Num(4))])}

\* Constructor arguments that differ in surface size.
CanvasConfigs ==
    {Undefined,
     Obj([width |-> Number(Num(100)), height |-> Number(Num(60)),
          graphSegments_X |-> Number(Num(2)), graphSegments_Y |-> Number(Num(3))]),
     Obj([width |-> Number(Num(0)), height |-> Number(Num(0)),
          graphSegments_X |-> Number(Num(2)), graphSegments_Y |-> Number(Num(3))])}

NumberFields ==
    {"height", "width", "yMax", "yPadding", "xPadding", "bar_width", "bar_spacing",
     "graphSegments_X", "graphSegments_Y", "yTextSize", "graphValuePrecision"}

\* For every field a falsy value of its type (an object is never falsy).
FalsySample ==
    [f \in Fields |->
        IF f \in NumberFields THEN Number(Zero)
        ELSE IF f = "verbose" THEN Bool(FALSE)
        ELSE IF f = "backgroundColor"
             THEN Obj([r |-> Zero, g |-> Zero, b |-> Zero, a |-> Zero])
        ELSE Str(<<>>)]

\* For every field a value that is neither falsy nor its default.
OtherSample ==
    [f \in Fields |->
        IF f \in NumberFields THEN Number(Num(7))
        ELSE IF f = "verbose" THEN Bool(TRUE)
        ELSE IF f = "backgroundColor"
             THEN Obj([r |-> Num(1), g |-> Num(2), b |-> Num(3), a |-> Num(1)])
        ELSE Str(<<"x">>)]

RECURSIVE FieldSetsUpTo(_)
FieldSetsUpTo(k) ==
    IF k = 0 THEN {{}}
    ELSE LET P == FieldSetsUpTo(k - 1) IN P \cup {S \cup {f} : S \in P, f \in Fields}

\* Constructor arguments that supply at most MaxSupplied fields, or all but
\* at most MaxSupplied, with falsy or with other values; and no argument.
ResolveConfigs ==
    {Undefined}
    \cup {Obj([f \in S |-> sample[f]]) :
            S \in FieldSetsUpTo(MaxSupplied) \cup {Fields \ T : T \in FieldSetsUpTo(MaxSupplied)},
            sample \in {FalsySample, OtherSample}}

----------------------------------------------------------------------------
(* Actions *)

\* new Graph(config)
Construct(configs, limit) ==
    /\ Len(graphs) < limit
    /\ \E config \in configs :
          LET gr == NewGraph(config)
          IN  /\ graphs' = Append(graphs, gr)
              /\ canvas' = EnsureCanvas(canvas, gr._options)
              /\ built' = Append(built, gr._options)
              /\ drawn' = Append(drawn, FALSE)
              /\ last' = [op |-> "new", g |-> Len(graphs) + 1, arg |-> config]
              /\ UNCHANGED ctxCalls

\* graph.add(entry)
Add(entries, limit) ==
    \E g \in 1..Len(graphs), entry \in entries :
        /\ Len(graphs[g]._entries) < limit
        /\ graphs' = [graphs EXCEPT ![g] = add(@, entry)]
        /\ last' = [op |-> "add", g |-> g, arg |-> Obj(entry)]
        /\ UNCHANGED <<canvas, ctxCalls, built, drawn>>

\* The values of the entries: this._entries.map((elt) => elt.val)
Vals(gr) == [k \in 1..Len(gr._entries) |-> gr._entries[k].val]

\* The state after draw() on graph g returned r.
DrawResult(g, r) ==
    /\ graphs' = [graphs EXCEPT ![g] = r.graph]
    /\ canvas' = r.canvas
    /\ ctxCalls' = r.calls
    /\ drawn' = [drawn EXCEPT ![g] = TRUE]
    /\ last' = [op |-> "draw", g |-> g, arg |-> Undefined]
    /\ UNCHANGED built

\* graph.draw()
Draw ==
    \E g \in 1..Len(graphs) :
        \E m \in maxResults(Vals(graphs[g])) :
            DrawResult(g, draw(graphs[g], canvas, m))

\* The process before any chart exists.
InitProcess ==
    /\ canvas = NoCanvas
    /\ graphs = <<>>
    /\ ctxCalls = <<>>
    /\ built = <<>>
    /\ drawn = <<>>
    /\ last = [op |-> "start", g |-> 0, arg |-> Undefined]

\* The process after its first  new Graph(config).
InitGraph(configs) ==
    \E config \in configs :
        LET gr == NewGraph(config)
        IN  /\ graphs = <<gr>>
            /\ canvas = EnsureCanvas(NoCanvas, gr._options)
            /\ ctxCalls = <<>>
            /\ built = <<gr._options>>
            /\ drawn = <<FALSE>>
            /\ last = [op |-> "new", g |-> 1, arg |-> config]

\* One chart, entries that differ in value.
Init == InitGraph(ValueConfigs)

Next == Add(ValueEntries, MaxEntries) \/ Draw

Spec == Init /\ [][Next]_vars

\* One chart, entries that differ in label and value label.
InitLabels == InitGraph(LabelConfigs)

NextLabels == Add(LabelEntries, MaxLabelled) \/ Draw

SpecLabels == InitLabels /\ [][NextLabels]_vars

\* Several charts on the one surface.
NextCanvas == Construct(CanvasConfigs, MaxGraphs) \/ Draw

SpecCanvas == InitProcess /\ [][NextCanvas]_vars

\* The first construction of a process, over the partial configurations.
NextResolve == Construct(ResolveConfigs, 1)

SpecResolve == InitProcess /\ [][NextResolve]_vars

----------------------------------------------------------------------------
(* Properties *)

\* The calls of the most recent draw made at a site.
SiteCalls(site) == SelectSeq(ctxCalls, LAMBDA c : c.site = site)

\* The integer a whole number stands for.
IntOf(x) == x.n

\* The reserved span of the y axis: one segment's height times
\* (graphSegments_Y - 2).
UsableSpan(HEIGHT, gsY) == Times(Over(HEIGHT, gsY), Minus(gsY, Num(2)))

\* The integer/fixed-precision rule for a number.
Formatted(x, precision) ==
    IF IsFinite(x) /\ x.d = 1 THEN toString(x) ELSE toFixed(x, precision)

\* The graph the most recent call was made on.
LastGraph == graphs[last.g]

Min(a, b) == IF a < b THEN a ELSE b

BarsAsSlots(gr, bars, n, k, W) ==
    /\ Len(bars) = Min(n, k)
    /\ \A j \in 1..Len(bars) :
          /\ bars[j].i = j - 1
          /\ bars[j].op = "fillRect"
          /\ bars[j].style = gr._entries[j].color
          /\ bars[j].a = Plus(gr._x_padding,
                              Over(Times(Num(j - 1), Minus(W, gr._x_padding)), Num(k)))
    /\ \A j \in 1..Len(ctxCalls) :
          ctxCalls[j].site \in {"bar", "barValue"} => ctxCalls[j].i < Min(n, k)

\* C2: every draw paints exactly min(n, k) bars, for the entries 0 ..
\* min(n, k) - 1 in store order, the bar of entry i at the pixel X of slot i,
\* left padding + i * (surface width - left padding) / k; no entry at an index
\* >= k is drawn and no slot at an index >= n has a bar.
C2_BarsFillSlots ==
    last.op = "draw" =>
        BarsAsSlots(LastGraph, SiteCalls("bar"), Len(LastGraph._entries),
                    IntOf(LastGraph._options.graphSegments_X.v), canvas.WIDTH)

\* C2 witness: a draw of three entries on two slots painted two bars, and so
\* left the third entry out.
C2_Witness ==
    /\ last.op = "draw"
    /\ Len(LastGraph._entries) = 3
    /\ LastGraph._options.graphSegments_X.v = Num(2)
    /\ Len(SiteCalls("bar")) = 2

\* Whether the constructor was given a yMax (anything but the unset value).
YMaxSet(g) == built[g].yMax.v # Num(-1)

BarsToScale(gr, bars, yMax, span) ==
    /\ \A j \in 1..Len(bars) :
          bars[j].d = Times(Over(gr._entries[bars[j].i + 1].val, yMax), span)
    /\ \A j, l \in 1..Len(bars) :
          gr._entries[bars[l].i + 1].val = Times(Num(2), gr._entries[bars[j].i + 1].val)
              => bars[l].d = Times(Num(2), bars[j].d)
    /\ \A j \in 1..Len(bars) :
          (Less(Zero, yMax) /\ Less(Zero, span)
           /\ Less(yMax, gr._entries[bars[j].i + 1].val)) => Less(span, bars[j].d)

\* C6: on every draw of a chart constructed with a yMax, each bar's pixel
\* height is (value / yMax) * usable span, the usable span being (surface
\* height / graphSegments_Y) * (graphSegments_Y - 2); so the height is linear
\* in the value and a value above yMax gives a bar higher than the span.
C6_BarHeightLinear ==
    (last.op = "draw" /\ YMaxSet(last.g)) =>
        BarsToScale(LastGraph, SiteCalls("bar"), built[last.g].yMax.v,
                    UsableSpan(canvas.HEIGHT, LastGraph._options.graphSegments_Y.v))

\* C6 witness: a draw of a chart with yMax 2 painted the bars of the values
\* 2 and 4, the second above the usable span.
C6_Witness ==
    /\ last.op = "draw"
    /\ built[last.g].yMax.v = Num(2)
    /\ \E j, l \in 1..Len(SiteCalls("bar")) :
          /\ LastGraph._entries[j].val = Num(2)
          /\ LastGraph._entries[l].val = Num(4)
          /\ Less(UsableSpan(canvas.HEIGHT, LastGraph._options.graphSegments_Y.v),
                  SiteCalls("bar")[l].d)

\* The step of draw() a call site belongs to: the background fill, the
\* bars, the axis outline and captions, the ticks.
StepOf(site) ==
    CASE site = "background" -> 1
      [] site \in {"bar", "barValue"} -> 2
      [] site \in {"title", "xAxisText", "xAxisLine", "yAxisText", "yAxisLine"} -> 3
      [] OTHER -> 4

InStepOrder(calls) ==
    /\ Len(calls) > 0
    /\ calls[1].site = "background"
    /\ \A j \in 1..(Len(calls) - 1) : StepOf(calls[j].site) <= StepOf(calls[j + 1].site)
    /\ \E j \in 1..Len(calls) : StepOf(calls[j].site) = 3

\* Every bar of calls has the height its value has on the scale yMax.
BarsOnScale(gr, calls, yMax, span) ==
    \A j \in 1..Len(calls) :
        calls[j].site = "bar" =>
            calls[j].d = Times(Over(gr._entries[calls[j].i + 1].val, yMax), span)

\* Every y-axis tick label of calls is the value of its tick on the scale yMax.
TicksOnScale(calls, yMax, segment, span, precision) ==
    \A j \in 1..Len(calls) :
        calls[j].site = "yTickLabel" =>
            calls[j].text =
                Formatted(Over(Times(Times(Num(calls[j].i), segment), yMax), span), precision)

DrawOnScales(gr, gr2, calls, H, firstUnset) ==
    /\ InStepOrder(calls)
    /\ BarsOnScale(gr, calls, gr._options.yMax.v,
                   UsableSpan(H, gr._options.graphSegments_Y.v))
    /\ TicksOnScale(calls, gr2._options.yMax.v, Over(H, gr._options.graphSegments_Y.v),
                    UsableSpan(H, gr._options.graphSegments_Y.v),
                    IntOf(gr._options.graphValuePrecision.v))
    /\ firstUnset =>
          /\ gr._options.yMax.v = Num(-1)
          /\ gr2._options.yMax.v \in maxResults(Vals(gr))

\* C8: draw() makes its calls in the order background, bars, outline and
\* captions, ticks; the bars of a draw have their heights on the scale yMax
\* has when draw() is called, which on the first draw of a chart with yMax
\* unset is the unset value -1, while the tick labels of the same draw are on
\* the scale yMax has afterwards, the maximum derived by that draw; so the
\* bars of every later draw are on the derived scale.
C8_BarsBeforeScale ==
    [][last'.op = "draw" =>
          DrawOnScales(graphs[last'.g], graphs'[last'.g], ctxCalls', canvas.HEIGHT,
                       ~YMaxSet(last'.g) /\ ~drawn[last'.g])]_vars

\* C8 witness: after a first draw of a chart with yMax unset, yMax is the
\* derived maximum 4 while the bar of the value 4 has the height the scale
\* -1 gives it, -4 times the usable span.
C8_Witness ==
    /\ last.op = "draw"
    /\ ~YMaxSet(last.g)
    /\ LastGraph._options.yMax.v = Num(4)
    /\ \E j \in 1..Len(ctxCalls) :
          /\ ctxCalls[j].site = "bar"
          /\ LastGraph._entries[ctxCalls[j].i + 1].val = Num(4)
          /\ ctxCalls[j].d =
                Times(Num(-4), UsableSpan(canvas.HEIGHT, LastGraph._options.graphSegments_Y.v))

Maximum(vals) == CHOOSE v \in {vals[k] : k \in 1..Len(vals)} :
                    \A k \in 1..Len(vals) : ~Less(v, vals[k])

\* What a graph holds besides its entries and its options.
Offsets(gr) == <<gr._x_offset, gr._y_offset, gr._x_padding, gr._y_padding>>

AddFrame(gr, gr2, entry) ==
    /\ gr2._entries = Append(gr._entries, entry)
    /\ gr2._options = gr._options
    /\ Offsets(gr2) = Offsets(gr)

DrawFrame(gr, gr2) ==
    /\ gr2._entries = gr._entries
    /\ Offsets(gr2) = Offsets(gr)

\* The one change of an option: a draw that finds yMax unset and a maximum
\* among the entries other than the unset value replaces yMax.
AutoFill(gr, gr2) ==
    (/\ gr._options.yMax.v = Num(-1)
     /\ Len(gr._entries) > 0
     /\ Maximum(Vals(gr)) # Num(-1)) =>
        gr2._options.yMax.v = Maximum(Vals(gr))

OptionsFrame(gr, gr2, o) ==
    /\ \A f \in Fields \ {"yMax"} : gr2._options[f] = o[f]
    /\ gr2._options.yMax # gr._options.yMax =>
          /\ last'.op = "draw"
          /\ gr._options.yMax = o.yMax
          /\ o.yMax.v = Num(-1)

\* C10: add(entry) appends exactly that entry at the end of the entry store
\* and changes neither an option nor an offset; draw changes neither the
\* entry store nor an offset; every option but yMax keeps the value the
\* constructor gave it, and yMax changes only in a draw, only from its
\* constructed unset value, hence at most once, and to the maximum among the
\* entries whenever that differs from the unset value.
C10_Frames ==
    [][\A g \in 1..Len(graphs) :
          /\ (last'.op = "add" /\ last'.g = g) =>
                AddFrame(graphs[g], graphs'[g], last'.arg.v)
          /\ (last'.op = "draw" /\ last'.g = g) =>
                /\ DrawFrame(graphs[g], graphs'[g])
                /\ AutoFill(graphs[g], graphs'[g])
          /\ OptionsFrame(graphs[g], graphs'[g], built[g])]_vars

\* C10 witness: an add after a draw that derived yMax left three entries,
\* the last of them the one added.
C10_Witness ==
    /\ last.op = "add"
    /\ drawn[last.g]
    /\ ~YMaxSet(last.g)
    /\ LastGraph._options.yMax.v = Num(2)
    /\ Len(LastGraph._entries) = 3
    /\ LastGraph._entries[3] = last.arg.v
    /\ LastGraph._entries[1] # last.arg.v

\* C1: for a chart constructed with yMax unset, the first draw sets yMax to
\* the maximum value among the entries then in the store, and from then on
\* no call changes yMax.
C1_DerivedThenFrozen ==
    [][\A g \in 1..Len(graphs) :
          ~YMaxSet(g) =>
              /\ (~drawn[g] /\ drawn'[g] /\ Len(graphs[g]._entries) > 0) =>
                    graphs'[g]._options.yMax.v = Maximum(Vals(graphs[g]))
              /\ drawn[g] => graphs'[g]._options.yMax = graphs[g]._options.yMax]_vars

\* The texts the most recent draw wrote at a site for loop index i.
TextsAt(site, i) ==
    SelectSeq(ctxCalls, LAMBDA c : c.site = site /\ c.i = i /\ c.op = "fillText")

SlotLabelled(gr, i, texts) ==
    IF i >= Len(gr._entries) \/ gr._entries[i + 1].label.t = "undefined"
    THEN Len(texts) = 1 /\ texts[1].text = toString(Num(i))
    ELSE IF gr._entries[i + 1].label.v = <<>> THEN Len(texts) = 0
    ELSE Len(texts) = 1

\* C3: a draw produces an x-axis tick label for every slot i in
\* [0, graphSegments_X), the range of the bars: the index i for a slot
\* without entry or whose entry has no label, a label for a slot whose entry
\* has a non-empty label, none for a slot whose entry's label is the empty
\* string.
C3_EverySlotLabelled ==
    last.op = "draw" =>
        \A i \in 0..(IntOf(LastGraph._options.graphSegments_X.v) - 1) :
            SlotLabelled(LastGraph, i, TextsAt("xTickLabel", i))

LabelFormatted(label, text, precision) ==
    text = IF isNaN(parseFloat(label)) THEN label
           ELSE Formatted(parseFloat(label), precision)

\* C9: the text written for a non-empty x-axis label is, when the label
\* parses as a number, that number formatted by the integer/fixed-precision
\* rule (an integral value, zero included, as an integer without decimal
\* point, another with exactly graphValuePrecision decimals), and otherwise
\* the label itself.
C9_LabelFormatted ==
    last.op = "draw" =>
        \A j \in 1..Len(ctxCalls) :
            (/\ ctxCalls[j].site = "xTickLabel"
             /\ ctxCalls[j].i < Len(LastGraph._entries)
             /\ LastGraph._entries[ctxCalls[j].i + 1].label.t = "string") =>
                LabelFormatted(LastGraph._entries[ctxCalls[j].i + 1].label.v,
                               ctxCalls[j].text,
                               IntOf(LastGraph._options.graphValuePrecision.v))

ValueTextAsAsked(entry, texts, precision) ==
    CASE entry.valueLabel.t = "null" -> Len(texts) = 0
      [] entry.valueLabel.t = "undefined" ->
            Len(texts) = 1 /\ texts[1].text = Formatted(entry.val, precision)
      [] OTHER -> Len(texts) = 1 /\ texts[1].text = entry.valueLabel.v

\* C4: for every bar a draw paints, no value text is written when the
\* entry's valueLabel is null, the formatted value is written when it is
\* absent, and exactly the string s when it is a string s.
C4_ValueLabel ==
    last.op = "draw" =>
        \A j \in 1..Len(ctxCalls) :
            ctxCalls[j].site = "bar" =>
                ValueTextAsAsked(LastGraph._entries[ctxCalls[j].i + 1],
                                 TextsAt("barValue", ctxCalls[j].i),
                                 IntOf(LastGraph._options.graphValuePrecision.v))

\* C4 witness: a draw painted a bar whose valueLabel is null and a bar whose
\* valueLabel is the empty string, and wrote one value text, the empty one.
C4_Witness ==
    /\ last.op = "draw"
    /\ Len(SiteCalls("bar")) = 2
    /\ LastGraph._entries[1].valueLabel = Null
    /\ LastGraph._entries[2].valueLabel = Str(<<>>)
    /\ Len(SiteCalls("barValue")) = 1
    /\ SiteCalls("barValue")[1].text = <<>>

\* The documented default of every option.
DocumentedDefaults ==
    [height          |-> Number(Num(480)),
     width           |-> Number(Num(720)),
     backgroundColor |-> Obj([r |-> Num(50), g |-> Num(50), b |-> Num(50), a |-> Frac(1, 2)]),
     titleText       |-> Str(<<"t", "i", "t", "l", "e">>),
     xAxisText       |-> Str(<<"X", "-", "A", "x", "i", "s">>),
     yAxisText       |-> Str(<<"Y", "-", "A", "x", "i", "s">>),
     yMax            |-> Number(Num(-1)),
     yPadding        |-> Number(Zero),
     xPadding        |-> Number(Zero),
     bar_width       |-> Number(Num(10)),
     bar_spacing     |-> Number(Num(5)),
     graphSegments_X |-> Number(Num(10)),
     graphSegments_Y |-> Number(Num(10)),
     titleColor      |-> White,
     xTextColor      |-> White,
     yTextColor      |-> White,
     yTextSize       |-> Number(Num(10)),
     xSegmentColor   |-> White,
     ySegmentColor   |-> White,
     graphValuePrecision |-> Number(Num(2)),
     verbose         |-> Bool(FALSE)]

\* Whether the constructor's argument supplies field f.
Supplied(config, f) == config.t = "object" /\ f \in DOMAIN config.v

\* C5: the constructor resolves its partial configuration so that every
\* field supplied, a falsy value (0, "", false) included, is unchanged in
\* the options, and every field absent has its documented default; a
\* configuration that supplies every field is resolved to itself.
C5_Resolution ==
    last.op = "new" =>
        \A f \in Fields :
            graphs[last.g]._options[f] =
                IF Supplied(last.arg, f) THEN last.arg.v[f] ELSE DocumentedDefaults[f]

\* C5 witness: a chart constructed from a configuration that supplies every
\* field with a falsy value has height 0, an empty title and yMax 0.
C5_Witness ==
    /\ last.op = "new"
    /\ last.arg.t = "object"
    /\ DOMAIN last.arg.v = Fields
    /\ last.arg.v["height"] = Number(Zero)
    /\ graphs[last.g]._options.height = Number(Zero)
    /\ graphs[last.g]._options.titleText = Str(<<>>)
    /\ graphs[last.g]._options.yMax = Number(Zero)
    /\ graphs[last.g]._options.verbose = Bool(FALSE)

\* C7: over the constructions of one process the surface is initialised at
\* most once, with the width and height of the first chart constructed; a
\* later construction, whatever its width and height, leaves the surface and
\* its size as they are.
C7_SurfaceOnce ==
    /\ [](/\ canvas.ready <=> Len(graphs) > 0
          /\ Len(graphs) > 0 =>
                /\ canvas.WIDTH = built[1].width.v
                /\ canvas.HEIGHT = built[1].height.v)
    /\ [][canvas.ready =>
             /\ canvas'.ready
             /\ canvas'.WIDTH = canvas.WIDTH
             /\ canvas'.HEIGHT = canvas.HEIGHT]_vars

\* C7 witness: a second chart was constructed 100 wide and 60 high, and the
\* surface has the 720 by 480 of the first.
C7_Witness ==
    /\ Len(graphs) = 2
    /\ last.op = "new"
    /\ graphs[2]._options.width.v = Num(100)
    /\ graphs[2]._options.height.v = Num(60)
    /\ canvas.WIDTH = Num(720)
    /\ canvas.HEIGHT = Num(480)

====
